---- MODULE Spec2Model ----
(***************************************************************************)
(* Model of statistik_deskriptif.py: a Streamlit script that is re-run     *)
(* top to bottom on every user interaction.  One run loads the uploaded    *)
(* file, resolves the date column, shows the selection widgets and, when   *)
(* the button is pressed, renders one chart, packages it into a PDF and a  *)
(* Word report and emits two download links.                               *)
(*                                                                         *)
(* Encodings.  A raw date cell holding the text "y-m" is the integer       *)
(* y*100+m; a cell whose text is no date has a month part outside 1..12.   *)
(* The files of the model use small years, which keeps the products of the *)
(* correlation within TLC's integers.                                      *)
(* A word of the description is modelled by its length in characters; a    *)
(* line of the PDF text is the sequence of the words on it, each followed  *)
(* by one space.                                                           *)
(***************************************************************************)
EXTENDS Integers, Sequences, FiniteSets, TLC

VARIABLES
    pc,                 \* position of the running script ("idle": no run in progress)
    uploaded_file,      \* the file the uploader widget returns (NoFile: nothing uploaded)
    df,                 \* the dataframe
    date_column,        \* resolved date column ("" while unresolved)
    drug_categories,    \* options of the multiselect
    selected_drugs,     \* value of the multiselect
    chart_type,         \* value of the selectbox
    graph_description,  \* value of the text area (sequence of word lengths)
    button,             \* value of st.button("Generate Visualization")
    fig,                \* the figure returned by the renderer
    lines,              \* wrapped description lines of the PDF
    temp_filename,      \* name of the temporary image of the running report function (0: none)
    tmp_files,          \* temporary image files existing in the temp directory
    pdf_buffer,         \* buffer returned by create_pdf_report
    docx_buffer,        \* buffer returned by create_word_report
    pdf_link,           \* link built from pdf_buffer ("" while unbuilt)
    docx_link,          \* link built from docx_buffer
    screen,             \* elements shown to the user in this run, in order
    error_text,         \* text of the exception in flight or shown ("" when none)
    started,            \* pipeline stages started in this run, in order
    completed,          \* pipeline stages completed in this run, in order
    rendered,           \* chart renderers invoked in this run, in order
    inputs,             \* everything this run has read from the user and the environment
    ref                 \* history variable: inputs and outcome of one earlier run

vars == <<pc, uploaded_file, df, date_column, drug_categories, selected_drugs,
          chart_type, graph_description, button, fig, lines, temp_filename,
          tmp_files, pdf_buffer, docx_buffer, pdf_link, docx_link, screen,
          error_text, started, completed, rendered, inputs, ref>>

(***************************************************************************)
(* Bounds and program constants                                            *)
(***************************************************************************)
MaxLeaked == 2      \* temp files that may be left behind before faults stop
MaxWords == 4       \* words of a description in SpecWrap
MaxRows == 2        \* rows of a table in SpecAnnual
LineLimit == 80     \* the line length limit of the wrapping loop
MaxChars == 400     \* max_chars of the description text area

(***************************************************************************)
(* Generic helpers                                                         *)
(***************************************************************************)
Range(s) == {s[i] : i \in DOMAIN s}

Contains(s, x) == \E i \in DOMAIN s : s[i] = x

RECURSIVE SumSeq(_)
SumSeq(s) == IF s = <<>> THEN 0 ELSE Head(s) + SumSeq(Tail(s))

RECURSIVE Without(_, _)
\* the sequence s with every occurrence of x removed, order kept
Without(s, x) ==
    IF s = <<>> THEN <<>>
    ELSE IF Head(s) = x THEN Without(Tail(s), x)
    ELSE <<Head(s)>> \o Without(Tail(s), x)

RECURSIVE Flatten(_)
Flatten(ss) == IF ss = <<>> THEN <<>> ELSE Head(ss) \o Flatten(Tail(ss))

\* all duplicate-free sequences over the set S (what a multiselect can return)
Arrangements(S) ==
    UNION {{s \in [1..n -> S] : \A i, j \in 1..n : i # j => s[i] # s[j]} :
           n \in 0..Cardinality(S)}

Count(s, x) == Cardinality({i \in DOMAIN s : s[i] = x})

IsPrefix(s, t) == Len(s) <= Len(t) /\ \A i \in DOMAIN s : s[i] = t[i]

(***************************************************************************)
(* Uploaded files                                                          *)
(***************************************************************************)
NoFile == [name |-> "", readable |-> FALSE, header |-> <<>>, cols |-> <<>>]

\* a file with a header and one sequence of raw cells per header entry
File(name, readable, header, cells) ==
    [name |-> name, readable |-> readable, header |-> header, cols |-> cells]

BothCsv == File("both.csv", TRUE, <<"A", "datum", "date">>,
                <<<<1, 2>>, <<2001, 2101>>, <<2003, 2004>>>>)
DateXlsx == File("date.xlsx", TRUE, <<"date", "A">>,
                 <<<<2001, 2002>>, <<1, 2>>>>)
FirstCsv == File("first.csv", TRUE, <<"t", "A">>,
                 <<<<2011, 2101>>, <<2, 3>>>>)
BadFirstCsv == File("badfirst.csv", TRUE, <<"x", "A">>,
                    <<<<2001, 2013>>, <<1, 1>>>>)
BadDatumCsv == File("baddatum.csv", TRUE, <<"datum", "A">>,
                    <<<<2000, 2001>>, <<1, 1>>>>)
BrokenCsv == File("broken.csv", FALSE, <<>>, <<>>)
EmptyXlsx == File("empty.xlsx", TRUE, <<>>, <<>>)

Files == {BothCsv, DateXlsx, FirstCsv, BadFirstCsv, BadDatumCsv, BrokenCsv, EmptyXlsx}

\* uploaded_file.name.endswith('.csv')
EndsWithCsv(name) == name \in {"both.csv", "first.csv", "badfirst.csv",
                               "baddatum.csv", "broken.csv", "annual.csv"}

(***************************************************************************)
(* Dataframes                                                              *)
(***************************************************************************)
NoneDf == [none |-> TRUE, columns |-> <<>>, data |-> <<>>,
           index_name |-> "", index |-> <<>>]

\* position of column c in the dataframe d
ColPos(d, c) == CHOOSE i \in DOMAIN d.columns : d.columns[i] = c

\* d[c]
Col(d, c) == d.data[ColPos(d, c)]

\* pd.read_csv / pd.read_excel: a frame with a RangeIndex
ReadTable(f) ==
    [none |-> FALSE, columns |-> f.header, data |-> f.cols,
     index_name |-> "",
     index |-> [i \in 1..(IF f.cols = <<>> THEN 0 ELSE Len(f.cols[1])) |-> i - 1]]

\* a raw cell is a date when its month part is a month and its year is positive
IsDateCell(c) == (c % 100) \in 1..12 /\ (c \div 100) >= 1

\* pd.to_datetime of one cell
ToDatetime(c) == [year |-> c \div 100, month |-> c % 100]

\* mutant: only the first cell decides whether the column parses
CanParseDatesFirstCell(d, c) == Col(d, c) = <<>> \/ IsDateCell(Col(d, c)[1])

\* pd.to_datetime(column) raises unless every cell is a date
CanParseDates(d, c) == \A i \in DOMAIN Col(d, c) : IsDateCell(Col(d, c)[i])

\* df[c] = pd.to_datetime(df[c]); df.set_index(c, inplace=True)
SetDateIndex(d, c) ==
    LET p == ColPos(d, c)
        keep == {i \in DOMAIN d.columns : i # p}
        at(k) == IF k < p THEN k ELSE k + 1
    IN  [none |-> FALSE,
         columns |-> [k \in 1..Cardinality(keep) |-> d.columns[at(k)]],
         data |-> [k \in 1..Cardinality(keep) |-> d.data[at(k)]],
         index_name |-> c,
         index |-> [i \in DOMAIN d.data[p] |-> ToDatetime(d.data[p][i])]]

\* mutant: 'date' is looked for before 'datum'
FindDateColumnDateFirst(columns) ==
    IF Contains(columns, "date") THEN "date"
    ELSE IF Contains(columns, "datum") THEN "datum"
    ELSE ""

\* lines 194-198: 'datum' first, then 'date', else nothing found
FindDateColumn(columns) ==
    IF Contains(columns, "datum") THEN "datum"
    ELSE IF Contains(columns, "date") THEN "date"
    ELSE ""

(***************************************************************************)
(* Chart renderers                                                         *)
(***************************************************************************)
NoFig == [kind |-> "", data |-> <<>>]

\* the elements of the set S of integers in increasing order
RECURSIVE SortedSeq(_)
SortedSeq(S) ==
    IF S = {} THEN <<>>
    ELSE LET m == CHOOSE x \in S : \A y \in S : x <= y
         IN  <<m>> \o SortedSeq(S \ {m})

\* create_time_series_plot: one line per selected column over the index
create_time_series_plot(d, sel) ==
    [kind |-> "Time Series",
     data |-> [k \in DOMAIN sel |->
                 [label |-> sel[k], x |-> d.index, y |-> Col(d, sel[k])]]]

\* create_boxplot: df[sel].melt() gives one (category, value) pair per cell
create_boxplot(d, sel) ==
    [kind |-> "Box Plot",
     data |-> Flatten([k \in DOMAIN sel |->
                 [i \in DOMAIN Col(d, sel[k]) |->
                     [category |-> sel[k], value |-> Col(d, sel[k])[i]]]])]

\* n*sum(xy) - sum(x)*sum(y): the co-moment Pearson's r is built from
CoMoment(x, y) ==
    Len(x) * SumSeq([i \in DOMAIN x |-> x[i] * y[i]]) - SumSeq(x) * SumSeq(y)

\* create_heatmap: df[sel].corr(); a cell holds r as num / sqrt(den2)
create_heatmap(d, sel) ==
    [kind |-> "Correlation Heatmap",
     data |-> [k \in DOMAIN sel |-> [j \in DOMAIN sel |->
                 [row |-> sel[k], col |-> sel[j],
                  num |-> CoMoment(Col(d, sel[k]), Col(d, sel[j])),
                  den2 |-> CoMoment(Col(d, sel[k]), Col(d, sel[k]))
                           * CoMoment(Col(d, sel[j]), Col(d, sel[j]))]]]]

\* df[c] = values: replaces the column named c, or appends a new one
AssignColumn(d, c, values) ==
    IF Contains(d.columns, c)
    THEN [d EXCEPT !.data[ColPos(d, c)] = values]
    ELSE [d EXCEPT !.columns = Append(d.columns, c),
                   !.data = Append(d.data, values)]

\* df_yearly = df.copy(); df_yearly['Year'] = df_yearly.index.year
WithYearColumn(d) ==
    AssignColumn(d, "Year", [i \in DOMAIN d.index |-> d.index[i].year])

\* df_yearly.groupby('Year')[sel].sum(): one row per distinct year, ascending
GroupByYearSum(dy, sel) ==
    LET year == Col(dy, "Year")
        years == SortedSeq(Range(year))
        sumOf(c, y) ==
            SumSeq([i \in DOMAIN year |-> IF year[i] = y THEN Col(dy, c)[i] ELSE 0])
    IN  [g \in DOMAIN years |->
            [year |-> years[g],
             sums |-> [k \in DOMAIN sel |->
                         [label |-> sel[k], value |-> sumOf(sel[k], years[g])]]]]

\* create_annual_sales: grouped bars of the yearly sums
create_annual_sales(d, sel) ==
    [kind |-> "Annual Sales", data |-> GroupByYearSum(WithYearColumn(d), sel)]

ChartTypes == {"Time Series", "Box Plot", "Correlation Heatmap", "Annual Sales"}

\* lines 251-258: the renderer the chart type selects
RendererFor(ct) ==
    CASE ct = "Time Series" -> "create_time_series_plot"
      [] ct = "Box Plot" -> "create_boxplot"
      [] ct = "Correlation Heatmap" -> "create_heatmap"
      [] ct = "Annual Sales" -> "create_annual_sales"

\* mutant: the Box Plot branch calls the heatmap renderer
RenderFigMixedUp(ct, d, sel) ==
    CASE ct = "Time Series" -> create_time_series_plot(d, sel)
      [] ct = "Box Plot" -> create_heatmap(d, sel)
      [] ct = "Correlation Heatmap" -> create_heatmap(d, sel)
      [] ct = "Annual Sales" -> create_annual_sales(d, sel)

\* lines 251-258: the figure the selected renderer returns
RenderFig(ct, d, sel) ==
    CASE ct = "Time Series" -> create_time_series_plot(d, sel)
      [] ct = "Box Plot" -> create_boxplot(d, sel)
      [] ct = "Correlation Heatmap" -> create_heatmap(d, sel)
      [] ct = "Annual Sales" -> create_annual_sales(d, sel)

(***************************************************************************)
(* Description wrapping of create_pdf_report                               *)
(***************************************************************************)
\* len(line): every word on the line is followed by one space
LineLen(line) == SumSeq([i \in DOMAIN line |-> line[i] + 1])

\* mutant: the trailing space of the word is not counted
FitsWithoutSpace(line, word) == LineLen(line) + word <= LineLimit

\* "if len(line + word) + 1 <= 80"
Fits(line, word) == LineLen(line) + word + 1 <= LineLimit

RECURSIVE WrapLoop(_, _, _)
\* the for loop of lines 122-127 over the remaining words
WrapLoop(words, acc, line) ==
    IF words = <<>> THEN <<acc, line>>
    ELSE IF Fits(line, Head(words))
         THEN WrapLoop(Tail(words), acc, Append(line, Head(words)))
         ELSE WrapLoop(Tail(words), Append(acc, line), <<Head(words)>>)

\* lines 119-129: the loop, then "if line: lines.append(line)"
WrapLines(description) ==
    LET r == WrapLoop(description, <<>>, <<>>)
    IN  IF r[2] # <<>> THEN Append(r[1], r[2]) ELSE r[1]

\* the default text of the text area, word by word
DefaultDescription ==
    <<4, 13, 5, 3, 6, 2, 4, 5, 6, 4, 3, 8, 7,
      3, 4, 7, 8, 8, 3, 7, 6, 6, 3, 7, 14, 11>>

\* the descriptions the user enters in the pipeline specification
Descriptions == {DefaultDescription}

(***************************************************************************)
(* Reports and links                                                       *)
(***************************************************************************)
NoBuffer == [format |-> "", text |-> <<>>, image |-> NoFig]

NoLink == [href |-> NoBuffer, download |-> "", text |-> ""]

\* get_download_link: the buffer inlined in an anchor
get_download_link(buffer, download_filename, link_text) ==
    [href |-> buffer, download |-> download_filename, text |-> link_text]

\* tempfile.NamedTemporaryFile picks a name no existing file has
TempNames == 1..(MaxLeaked + 1)

FreshTemp(existing) ==
    CHOOSE n \in TempNames \ existing : \A m \in TempNames \ existing : n <= m

(***************************************************************************)
(* State of a run                                                          *)
(***************************************************************************)
NoInputs == [file |-> "", sel |-> <<>>, chart |-> "", desc |-> <<>>,
             button |-> FALSE, env |-> <<>>]

\* what the user has in front of them once the run has ended
Outcome ==
    [screen |-> screen, categories |-> drug_categories,
     chart |-> IF Contains(screen, "chart") THEN fig ELSE NoFig,
     pdf |-> IF Contains(screen, "pdf_link") THEN pdf_link ELSE NoLink,
     docx |-> IF Contains(screen, "docx_link") THEN docx_link ELSE NoLink,
     error |-> IF Contains(screen, "error") THEN error_text ELSE ""]

NoRef == [set |-> FALSE, inputs |-> NoInputs,
          outcome |-> [screen |-> <<>>, categories |-> <<>>, chart |-> NoFig,
                       pdf |-> NoLink, docx |-> NoLink, error |-> ""]]

loadVars == <<uploaded_file, df, date_column, drug_categories>>
widgetVars == <<selected_drugs, chart_type, graph_description, button>>
reportVars == <<lines, pdf_buffer, docx_buffer, pdf_link, docx_link>>
tempVars == <<temp_filename, tmp_files>>
logVars == <<started, completed, rendered>>

Init ==
    /\ pc = "idle"
    /\ uploaded_file = NoFile
    /\ df = NoneDf
    /\ date_column = ""
    /\ drug_categories = <<>>
    /\ selected_drugs = <<>>
    /\ chart_type = ""
    /\ graph_description = <<>>
    /\ button = FALSE
    /\ fig = NoFig
    /\ lines = <<>>
    /\ temp_filename = 0
    /\ tmp_files = {}
    /\ pdf_buffer = NoBuffer
    /\ docx_buffer = NoBuffer
    /\ pdf_link = NoLink
    /\ docx_link = NoLink
    /\ screen = <<>>
    /\ error_text = ""
    /\ started = <<>>
    /\ completed = <<>>
    /\ rendered = <<>>
    /\ inputs = NoInputs
    /\ ref = NoRef

\* an exception leaves the try block for the handler of line 281
Raise(what) ==
    /\ pc' = "except"
    /\ error_text' = what

\* temp files left behind by earlier report calls
LeakedSoFar == Cardinality(tmp_files \ {temp_filename})

\* the outcomes of a library call that the environment can make fail
EnvOutcomes == IF LeakedSoFar < MaxLeaked THEN {"ok", "raise"} ELSE {"ok"}

(***************************************************************************)
(* The script, top to bottom                                               *)
(***************************************************************************)
\* lines 15-30 and 181, 283-284: a user interaction re-runs the script; every
\* variable of the previous run is gone, the temp directory is not
Rerun ==
    /\ pc = "idle"
    /\ \E f \in Files \cup {NoFile} :
        /\ uploaded_file' = f
        /\ inputs' = [NoInputs EXCEPT !.file = f.name]
        /\ IF f = NoFile
           THEN pc' = "idle" /\ screen' = <<"info">>
           ELSE pc' = "read" /\ screen' = <<>>
    /\ df' = NoneDf
    /\ date_column' = ""
    /\ drug_categories' = <<>>
    /\ selected_drugs' = <<>>
    /\ chart_type' = ""
    /\ graph_description' = <<>>
    /\ button' = FALSE
    /\ fig' = NoFig
    /\ lines' = <<>>
    /\ pdf_buffer' = NoBuffer
    /\ docx_buffer' = NoBuffer
    /\ pdf_link' = NoLink
    /\ docx_link' = NoLink
    /\ error_text' = ""
    /\ started' = <<>>
    /\ completed' = <<>>
    /\ rendered' = <<>>
    /\ ref' \in IF ref.set \/ screen = <<>>
                THEN {ref}
                ELSE {ref, [set |-> TRUE, inputs |-> inputs, outcome |-> Outcome]}
    /\ UNCHANGED tempVars

\* lines 183-191: read_csv or read_excel, then the data preview
ReadFile ==
    /\ pc = "read"
    /\ started' = Append(started, "Loader")
    /\ IF uploaded_file.readable
       THEN /\ df' = IF EndsWithCsv(uploaded_file.name)
                     THEN ReadTable(uploaded_file)
                     ELSE ReadTable(uploaded_file)
            /\ screen' = Append(screen, "preview")
            /\ pc' = "dates"
            /\ UNCHANGED error_text
       ELSE /\ Raise("read")
            /\ UNCHANGED <<df, screen>>
    /\ UNCHANGED <<uploaded_file, date_column, drug_categories, widgetVars, fig,
                   reportVars, tempVars, completed, rendered, inputs, ref>>

\* lines 193-215: resolve the date column, parse it, make it the index
ResolveDateColumn ==
    /\ pc = "dates"
    /\ LET found == FindDateColumn(df.columns)
           col == IF found # "" THEN found ELSE df.columns[1]
       IN  /\ screen' = IF found # "" THEN screen ELSE Append(screen, "warning")
           /\ IF found = "" /\ df.columns = <<>>
              THEN /\ Raise("IndexError")
                   /\ UNCHANGED <<df, date_column, drug_categories, completed>>
              ELSE IF ~CanParseDates(df, col)
              THEN /\ Raise("to_datetime")
                   /\ date_column' = col
                   /\ UNCHANGED <<df, drug_categories, completed>>
              ELSE /\ date_column' = col
                   /\ df' = SetDateIndex(df, col)
                   /\ drug_categories' = df'.columns
                   /\ completed' = Append(completed, "Loader")
                   /\ pc' = "widgets"
                   /\ UNCHANGED error_text
    /\ UNCHANGED <<uploaded_file, widgetVars, fig, reportVars, tempVars,
                   started, rendered, inputs, ref>>

\* lines 217-244: the widgets are shown and return what the user chose
ShowWidgets ==
    /\ pc = "widgets"
    /\ screen' = Append(screen, "widgets")
    /\ started' = Append(started, "Selector")
    /\ \E sel \in Arrangements(Range(drug_categories)), ct \in ChartTypes,
          desc \in Descriptions, pressed \in BOOLEAN :
        /\ selected_drugs' = sel
        /\ chart_type' = ct
        /\ graph_description' = desc
        /\ button' = pressed
        /\ inputs' = [inputs EXCEPT !.sel = sel, !.chart = ct, !.desc = desc,
                                    !.button = pressed]
    /\ pc' = "button"
    /\ UNCHANGED <<loadVars, fig, reportVars, tempVars, error_text,
                   completed, rendered, ref>>

\* mutant: the button handler does not validate the selection
GenerateVisualizationUnchecked ==
    /\ pc = "button"
    /\ IF ~button
       THEN /\ pc' = "idle"
            /\ completed' = Append(completed, "Selector")
            /\ UNCHANGED screen
       ELSE /\ pc' = "render"
            /\ screen' = Append(screen, "subheader3")
            /\ completed' = Append(completed, "Selector")
    /\ UNCHANGED <<loadVars, widgetVars, fig, reportVars, tempVars, error_text,
                   started, rendered, inputs, ref>>

\* lines 244-248: the button handler validates the selection
GenerateVisualization ==
    /\ pc = "button"
    /\ IF ~button
       THEN /\ pc' = "idle"
            /\ completed' = Append(completed, "Selector")
            /\ UNCHANGED screen
       ELSE IF selected_drugs = <<>>
       THEN /\ pc' = "idle"
            /\ screen' = Append(screen, "error_selection")
            /\ UNCHANGED completed
       ELSE /\ pc' = "render"
            /\ screen' = Append(screen, "subheader3")
            /\ completed' = Append(completed, "Selector")
    /\ UNCHANGED <<loadVars, widgetVars, fig, reportVars, tempVars, error_text,
                   started, rendered, inputs, ref>>

\* lines 250-258: the renderer matching the chart type builds the figure
RenderChart ==
    /\ pc = "render"
    /\ started' = Append(started, "Renderer")
    /\ rendered' = Append(rendered, RendererFor(chart_type))
    /\ \E env \in {"ok", "raise"} :
        /\ inputs' = [inputs EXCEPT !.env = Append(@, env)]
        /\ IF env = "ok"
           THEN /\ fig' = RenderFig(chart_type, df, selected_drugs)
                /\ completed' = Append(completed, "Renderer")
                /\ pc' = "display"
                /\ UNCHANGED error_text
           ELSE /\ Raise("render")
                /\ UNCHANGED <<fig, completed>>
    /\ UNCHANGED <<loadVars, widgetVars, reportVars, tempVars, screen, ref>>

\* lines 260-265: the chart and the download header are shown
DisplayChart ==
    /\ pc = "display"
    /\ screen' = screen \o <<"chart", "header4">>
    /\ pc' = "pdf_wrap"
    /\ UNCHANGED <<loadVars, widgetVars, fig, reportVars, tempVars, error_text,
                   logVars, inputs, ref>>

(***************************************************************************)
(* create_pdf_report                                                       *)
(***************************************************************************)
\* lines 102-134: the canvas, the title and the wrapped description
PdfWrapText ==
    /\ pc = "pdf_wrap"
    /\ started' = Append(started, "PackagerPDF")
    /\ lines' = WrapLines(graph_description)
    /\ pc' = "pdf_savefig"
    /\ UNCHANGED <<loadVars, widgetVars, fig, pdf_buffer, docx_buffer, pdf_link,
                   docx_link, tempVars, screen, error_text, completed, rendered,
                   inputs, ref>>

\* mutant: the image has one fixed name and is created exclusively, so a
\* file left behind by an earlier run makes the creation fail
PdfSavefigFixedName ==
    /\ pc = "pdf_savefig"
    /\ \E env \in EnvOutcomes :
        /\ inputs' = [inputs EXCEPT !.env = Append(@, env)]
        /\ IF tmp_files # {}
           THEN /\ Raise("pdf savefig")
                /\ temp_filename' = 0
                /\ UNCHANGED tmp_files
           ELSE /\ tmp_files' = {1}
                /\ IF env = "ok"
                   THEN /\ temp_filename' = 1
                        /\ pc' = "pdf_draw"
                        /\ UNCHANGED error_text
                   ELSE /\ Raise("pdf savefig")
                        /\ temp_filename' = 0
    /\ UNCHANGED <<loadVars, widgetVars, fig, reportVars, screen, logVars, ref>>

\* lines 137-139: the temporary file is created, then the figure saved into it
PdfSavefig ==
    /\ pc = "pdf_savefig"
    /\ \E env \in EnvOutcomes :
        /\ inputs' = [inputs EXCEPT !.env = Append(@, env)]
        /\ tmp_files' = tmp_files \cup {FreshTemp(tmp_files)}
        /\ IF env = "ok"
           THEN /\ temp_filename' = FreshTemp(tmp_files)
                /\ pc' = "pdf_draw"
                /\ UNCHANGED error_text
           ELSE /\ Raise("pdf savefig")
                /\ temp_filename' = 0
    /\ UNCHANGED <<loadVars, widgetVars, fig, reportVars, screen, logVars, ref>>

\* line 142: the image is drawn on the canvas
PdfDrawImage ==
    /\ pc = "pdf_draw"
    /\ \E env \in EnvOutcomes :
        /\ inputs' = [inputs EXCEPT !.env = Append(@, env)]
        /\ IF env = "ok"
           THEN /\ pc' = "pdf_save"
                /\ UNCHANGED <<error_text, temp_filename>>
           ELSE /\ Raise("pdf drawImage")
                /\ temp_filename' = 0
    /\ UNCHANGED <<loadVars, widgetVars, fig, reportVars, tmp_files, screen,
                   logVars, ref>>

\* lines 144-148: the canvas is saved, the temporary file removed, the buffer returned
PdfSave ==
    /\ pc = "pdf_save"
    /\ \E env \in EnvOutcomes :
        /\ inputs' = [inputs EXCEPT !.env = Append(@, env)]
        /\ IF env = "ok"
           THEN /\ tmp_files' = tmp_files \ {temp_filename}
                /\ pdf_buffer' = [format |-> "pdf", text |-> lines, image |-> fig]
                /\ completed' = Append(completed, "PackagerPDF")
                /\ pc' = "pdf_link"
                /\ UNCHANGED error_text
           ELSE /\ Raise("pdf save")
                /\ UNCHANGED <<tmp_files, pdf_buffer, completed>>
    /\ temp_filename' = 0
    /\ UNCHANGED <<loadVars, widgetVars, fig, lines, docx_buffer, pdf_link,
                   docx_link, screen, started, rendered, ref>>

\* mutant: the PDF link is shown as soon as it is built
LinkPdfShownAtOnce ==
    /\ pc = "pdf_link"
    /\ pdf_link' = get_download_link(pdf_buffer, "drug_sales_report.pdf",
                                     "Download PDF Report")
    /\ started' = Append(started, "LinkPDF")
    /\ completed' = Append(completed, "LinkPDF")
    /\ screen' = Append(screen, "pdf_link")
    /\ pc' = "word_savefig"
    /\ UNCHANGED <<loadVars, widgetVars, fig, lines, pdf_buffer, docx_buffer,
                   docx_link, tempVars, error_text, rendered, inputs, ref>>

\* line 269: the PDF link is built
LinkPdf ==
    /\ pc = "pdf_link"
    /\ pdf_link' = get_download_link(pdf_buffer, "drug_sales_report.pdf",
                                     "Download PDF Report")
    /\ started' = Append(started, "LinkPDF")
    /\ completed' = Append(completed, "LinkPDF")
    /\ pc' = "word_savefig"
    /\ UNCHANGED <<loadVars, widgetVars, fig, lines, pdf_buffer, docx_buffer,
                   docx_link, tempVars, screen, error_text, rendered, inputs, ref>>

(***************************************************************************)
(* create_word_report                                                      *)
(***************************************************************************)
\* lines 152-161: the document and its description, then the temporary image
WordSavefig ==
    /\ pc = "word_savefig"
    /\ started' = Append(started, "PackagerWord")
    /\ \E env \in EnvOutcomes :
        /\ inputs' = [inputs EXCEPT !.env = Append(@, env)]
        /\ tmp_files' = tmp_files \cup {FreshTemp(tmp_files)}
        /\ IF env = "ok"
           THEN /\ temp_filename' = FreshTemp(tmp_files)
                /\ pc' = "word_picture"
                /\ UNCHANGED error_text
           ELSE /\ Raise("word savefig")
                /\ temp_filename' = 0
    /\ UNCHANGED <<loadVars, widgetVars, fig, reportVars, screen, completed,
                   rendered, ref>>

\* lines 164-165: the picture is added to the document
WordAddPicture ==
    /\ pc = "word_picture"
    /\ \E env \in EnvOutcomes :
        /\ inputs' = [inputs EXCEPT !.env = Append(@, env)]
        /\ IF env = "ok"
           THEN /\ pc' = "word_save"
                /\ UNCHANGED <<error_text, temp_filename>>
           ELSE /\ Raise("word add_picture")
                /\ temp_filename' = 0
    /\ UNCHANGED <<loadVars, widgetVars, fig, reportVars, tmp_files, screen,
                   logVars, ref>>

\* lines 168-173: the document is saved, the temporary file removed, the buffer returned
WordSave ==
    /\ pc = "word_save"
    /\ \E env \in EnvOutcomes :
        /\ inputs' = [inputs EXCEPT !.env = Append(@, env)]
        /\ IF env = "ok"
           THEN /\ tmp_files' = tmp_files \ {temp_filename}
                /\ docx_buffer' = [format |-> "docx", text |-> <<graph_description>>,
                                   image |-> fig]
                /\ completed' = Append(completed, "PackagerWord")
                /\ pc' = "word_link"
                /\ UNCHANGED error_text
           ELSE /\ Raise("word save")
                /\ UNCHANGED <<tmp_files, docx_buffer, completed>>
    /\ temp_filename' = 0
    /\ UNCHANGED <<loadVars, widgetVars, fig, lines, pdf_buffer, pdf_link,
                   docx_link, screen, started, rendered, ref>>

\* line 273: the Word link is built
LinkWord ==
    /\ pc = "word_link"
    /\ docx_link' = get_download_link(docx_buffer, "drug_sales_report.docx",
                                      "Download Word Report")
    /\ started' = Append(started, "LinkWord")
    /\ completed' = Append(completed, "LinkWord")
    /\ pc' = "show_pdf"
    /\ UNCHANGED <<loadVars, widgetVars, fig, lines, pdf_buffer, docx_buffer,
                   pdf_link, tempVars, screen, error_text, rendered, inputs, ref>>

(***************************************************************************)
(* Link display and the exception handler                                  *)
(***************************************************************************)
\* lines 275-276: the PDF link is shown in the first column
ShowPdfLink ==
    /\ pc = "show_pdf"
    /\ screen' = Append(screen, "pdf_link")
    /\ started' = Append(started, "Emit")
    /\ pc' = "show_docx"
    /\ UNCHANGED <<loadVars, widgetVars, fig, reportVars, tempVars, error_text,
                   completed, rendered, inputs, ref>>

\* lines 278-279: the Word link is shown in the second column; the run ends
ShowDocxLink ==
    /\ pc = "show_docx"
    /\ screen' = Append(screen, "docx_link")
    /\ completed' = Append(completed, "Emit")
    /\ pc' = "idle"
    /\ UNCHANGED <<loadVars, widgetVars, fig, reportVars, tempVars, error_text,
                   started, rendered, inputs, ref>>

\* mutant: the handler swallows the exception
HandleExceptionSilent ==
    /\ pc = "except"
    /\ pc' = "idle"
    /\ UNCHANGED <<loadVars, widgetVars, fig, reportVars, tempVars, error_text,
                   logVars, inputs, ref, screen>>

\* lines 281-282: the handler shows the generic message with the exception text
HandleException ==
    /\ pc = "except"
    /\ screen' = Append(screen, "error")
    /\ pc' = "idle"
    /\ UNCHANGED <<loadVars, widgetVars, fig, reportVars, tempVars, error_text,
                   logVars, inputs, ref>>

Next ==
    \/ Rerun
    \/ ReadFile
    \/ ResolveDateColumn
    \/ ShowWidgets
    \/ GenerateVisualization
    \/ RenderChart
    \/ DisplayChart
    \/ PdfWrapText
    \/ PdfSavefig
    \/ PdfDrawImage
    \/ PdfSave
    \/ LinkPdf
    \/ WordSavefig
    \/ WordAddPicture
    \/ WordSave
    \/ LinkWord
    \/ ShowPdfLink
    \/ ShowDocxLink
    \/ HandleException

Spec == Init /\ [][Next]_vars

(***************************************************************************)
(* create_annual_sales on its own: the script at line 258, about to render *)
(* an Annual Sales chart of a table with the columns date, A and Year       *)
(***************************************************************************)
AnnualDates == {2001, 2012, 2101}

AnnualValues == {1, 2}

AnnualFiles ==
    UNION {{File("annual.csv", TRUE, <<"date", "A", "Year">>, <<d, a, y>>) :
              d \in [1..n -> AnnualDates], a \in [1..n -> AnnualValues],
              y \in [1..n -> AnnualValues]} : n \in 1..MaxRows}

\* the state in which the script reaches line 250 after the upload of f
AtRender(f, sel, ct) ==
    /\ pc = "render"
    /\ uploaded_file = f
    /\ date_column = FindDateColumn(f.header)
    /\ df = SetDateIndex(ReadTable(f), date_column)
    /\ drug_categories = df.columns
    /\ selected_drugs = sel
    /\ chart_type = ct
    /\ graph_description = DefaultDescription
    /\ button = TRUE
    /\ fig = NoFig
    /\ lines = <<>>
    /\ temp_filename = 0
    /\ tmp_files = {}
    /\ pdf_buffer = NoBuffer
    /\ docx_buffer = NoBuffer
    /\ pdf_link = NoLink
    /\ docx_link = NoLink
    /\ screen = <<"preview", "widgets", "subheader3">>
    /\ error_text = ""
    /\ started = <<"Loader", "Selector">>
    /\ completed = <<"Loader", "Selector">>
    /\ rendered = <<>>
    /\ inputs = [file |-> f.name, sel |-> sel, chart |-> ct,
                 desc |-> DefaultDescription, button |-> TRUE, env |-> <<>>]
    /\ ref = NoRef

InitAnnual ==
    \E f \in AnnualFiles, sel \in Arrangements({"A", "Year"}) \ {<<>>} :
        AtRender(f, sel, "Annual Sales")

NextAnnual == RenderChart

SpecAnnual == InitAnnual /\ [][NextAnnual]_vars

(***************************************************************************)
(* The wrapping loop on its own: the script at line 268, about to build    *)
(* the PDF of a Time Series chart, for every bounded description           *)
(***************************************************************************)
WordLens == {1, 38, 39, 40, 79, 80}

\* the descriptions of at most MaxWords words the text area accepts
WrapDescriptions ==
    {d \in UNION {[1..n -> WordLens] : n \in 0..MaxWords} :
        SumSeq(d) + Len(d) - 1 <= MaxChars}

InitWrap ==
    \E desc \in WrapDescriptions :
        /\ pc = "pdf_wrap"
        /\ uploaded_file = DateXlsx
        /\ date_column = "date"
        /\ df = SetDateIndex(ReadTable(DateXlsx), "date")
        /\ drug_categories = <<"A">>
        /\ selected_drugs = <<"A">>
        /\ chart_type = "Time Series"
        /\ graph_description = desc
        /\ button = TRUE
        /\ fig = create_time_series_plot(df, <<"A">>)
        /\ lines = <<>>
        /\ temp_filename = 0
        /\ tmp_files = {}
        /\ pdf_buffer = NoBuffer
        /\ docx_buffer = NoBuffer
        /\ pdf_link = NoLink
        /\ docx_link = NoLink
        /\ screen = <<"preview", "widgets", "subheader3", "chart", "header4">>
        /\ error_text = ""
        /\ started = <<"Loader", "Selector", "Renderer">>
        /\ completed = <<"Loader", "Selector", "Renderer">>
        /\ rendered = <<"create_time_series_plot">>
        /\ inputs = [file |-> "date.xlsx", sel |-> <<"A">>, chart |-> "Time Series",
                     desc |-> desc, button |-> TRUE, env |-> <<"ok">>]
        /\ ref = NoRef

NextWrap == PdfWrapText

SpecWrap == InitWrap /\ [][NextWrap]_vars

(***************************************************************************)
(* Properties                                                              *)
(***************************************************************************)
Last(s) == s[Len(s)]

LinkShown == Contains(screen, "pdf_link") \/ Contains(screen, "docx_link")

PackagerStarted == Contains(started, "PackagerPDF") \/ Contains(started, "PackagerWord")

ReportErrors == {"pdf savefig", "pdf drawImage", "pdf save",
                 "word savefig", "word add_picture", "word save"}

WordErrors == {"word savefig", "word add_picture", "word save"}

\* the date column the resolution policy names for a header
PolicyDateColumn(h) ==
    IF Contains(h, "datum") THEN "datum"
    ELSE IF Contains(h, "date") THEN "date"
    ELSE h[1]

\* C1: once the loader has completed, the date column is "datum" if the file
\* has it, else "date" if the file has it, else the first column; that column
\* is the index, parsed, and the categories are all other columns of the file
\* in their order.  Once date resolution has run, the warning has been shown
\* exactly when the file has neither "datum" nor "date".
DateColumnResolution ==
    LET h == uploaded_file.header
    IN  /\ Contains(completed, "Loader") =>
            LET c == PolicyDateColumn(h)
                p == CHOOSE i \in DOMAIN h : h[i] = c
            IN  /\ date_column = c
                /\ df.index_name = c
                /\ df.index = [i \in DOMAIN uploaded_file.cols[p] |->
                                 ToDatetime(uploaded_file.cols[p][i])]
                /\ drug_categories = Without(h, c)
                /\ df.columns = Without(h, c)
        /\ (Contains(screen, "preview") /\ pc # "dates") =>
            /\ Contains(screen, "warning")
                 <=> (~Contains(h, "datum") /\ ~Contains(h, "date"))
            /\ Count(screen, "warning") <= 1

\* C1 witness: a file with both "datum" and "date" is loaded; "date" is a category
DatumWinsOverDate ==
    /\ Contains(completed, "Loader")
    /\ Contains(uploaded_file.header, "datum")
    /\ Contains(drug_categories, "date")

\* C2: once the button handler has run on an empty selection the run is over:
\* no renderer and no report function was invoked, no link is shown, and the
\* user sees the selection error, not the generic one.
EmptySelectionHalts ==
    (button /\ selected_drugs = <<>> /\ pc # "button") =>
        /\ pc = "idle"
        /\ rendered = <<>>
        /\ ~Contains(started, "Renderer")
        /\ ~PackagerStarted
        /\ ~LinkShown
        /\ pdf_link = NoLink /\ docx_link = NoLink
        /\ Count(screen, "error_selection") = 1
        /\ Last(screen) = "error_selection"
        /\ ~Contains(screen, "error")

\* C2 witness: the button was pressed with nothing selected
EmptySelectionPressed ==
    /\ pc = "idle"
    /\ button
    /\ selected_drugs = <<>>
    /\ Contains(screen, "widgets")

\* C3: outside the report functions no temporary image file exists.
NoTempFileRemains ==
    pc \notin {"pdf_draw", "pdf_save", "word_picture", "word_save"}
        => tmp_files = {}

\* C4 as stated: a run that ended in an exception shows exactly one generic
\* error and no partial output: no preview, no chart, no link.
NoPartialOutputOnError ==
    (pc = "idle" /\ error_text # "") =>
        /\ Count(screen, "error") = 1
        /\ ~Contains(screen, "preview")
        /\ ~Contains(screen, "chart")
        /\ ~LinkShown

\* C4 as amended: a run that ended in an exception shows exactly one generic
\* error, carrying the exception text, as its last output, and no download
\* link; what was shown before the exception stays: the preview unless the
\* file could not be read, the chart when report generation raised.
ErrorShownOnceAfterPartialOutput ==
    /\ (pc = "idle" /\ error_text # "") =>
        /\ Count(screen, "error") = 1
        /\ Last(screen) = "error"
        /\ Outcome.error = error_text
        /\ ~LinkShown
        /\ Contains(screen, "preview") <=> error_text # "read"
        /\ Contains(screen, "chart") <=> error_text \in ReportErrors
    /\ Contains(screen, "error") => error_text # ""
    /\ pc = "except" => error_text # ""

\* C4 witness: the PDF image could not be embedded, after the chart was shown
PdfEmbeddingFailed ==
    /\ pc = "idle"
    /\ error_text = "pdf drawImage"
    /\ Contains(screen, "chart")

\* whether the file has no "datum"/"date" column and a first column that is no date column
UnparseableFirstColumn(f) ==
    /\ f.readable
    /\ f.header # <<>>
    /\ ~Contains(f.header, "datum")
    /\ ~Contains(f.header, "date")
    /\ \E i \in DOMAIN f.cols[1] : ~IsDateCell(f.cols[1][i])

\* C5: for a file with no "datum"/"date" column and an unparseable first
\* column, the widgets are never shown, no renderer or report function is
\* invoked, the table is never indexed by that column, and the run ends with
\* the load error.
UnparseableFirstColumnIsError ==
    UnparseableFirstColumn(uploaded_file) =>
        /\ ~Contains(screen, "widgets")
        /\ rendered = <<>>
        /\ ~PackagerStarted
        /\ df.index_name = ""
        /\ pc \in {"read", "dates", "except", "idle"}
        /\ pc = "idle" =>
            /\ Last(screen) = "error"
            /\ error_text = "to_datetime"

\* C5 witness: the run on such a file has ended
UnparseableFirstColumnRunEnded ==
    /\ UnparseableFirstColumn(uploaded_file)
    /\ pc = "idle"
    /\ Contains(screen, "warning")

\* C6: when create_annual_sales has returned, the figure has one bucket per
\* distinct year of the index, each selected column's value in a bucket is
\* the sum of the column's original values over the rows of that year, and
\* the table is as the loader left it.
AnnualSalesSumsOriginalValues ==
    (pc = "display" /\ chart_type = "Annual Sales") =>
        LET years == {df.index[i].year : i \in DOMAIN df.index}
        IN  /\ Len(fig.data) = Cardinality(years)
            /\ {fig.data[g].year : g \in DOMAIN fig.data} = years
            /\ \A g \in DOMAIN fig.data :
                /\ DOMAIN fig.data[g].sums = DOMAIN selected_drugs
                /\ \A k \in DOMAIN selected_drugs :
                    /\ fig.data[g].sums[k].label = selected_drugs[k]
                    /\ fig.data[g].sums[k].value =
                         SumSeq([i \in DOMAIN df.index |->
                                   IF df.index[i].year = fig.data[g].year
                                   THEN Col(df, selected_drugs[k])[i] ELSE 0])
            /\ df = SetDateIndex(ReadTable(uploaded_file), date_column)

\* the line may hold what it holds: at most 80 characters, or one long word
LineWithinLimit(line) ==
    \/ LineLen(line) <= LineLimit
    \/ Len(line) = 1 /\ line[1] >= LineLimit

\* the words of the lines, in order, are the words of the description
WordsKept == Flatten(lines) = graph_description

\* a line is started only by a word that did not fit on the line before it
GreedyPacking ==
    \A i \in 2..Len(lines) : lines[i] # <<>> /\ ~Fits(lines[i - 1], lines[i][1])

\* C7 as stated: every emitted line is non-empty and at most 80 characters
\* long, the words are kept in order, and the packing is greedy.
WrapKeepsEveryLineWithinLimit ==
    pc = "pdf_savefig" =>
        /\ \A i \in DOMAIN lines : lines[i] # <<>> /\ LineLen(lines[i]) <= LineLimit
        /\ WordsKept
        /\ GreedyPacking

\* C7 as amended: every emitted line is at most 80 characters long unless it
\* holds a single word of 80 or more characters; only the first line can be
\* empty, and it is exactly when the first word has 80 or more characters;
\* the words are kept in order, and the packing is greedy.
WrapGreedyUpToLongWords ==
    pc = "pdf_savefig" =>
        /\ \A i \in DOMAIN lines : LineWithinLimit(lines[i])
        /\ \A i \in DOMAIN lines : lines[i] = <<>> => i = 1
        /\ (lines # <<>> /\ lines[1] = <<>>)
             <=> (graph_description # <<>> /\ graph_description[1] >= LineLimit)
        /\ WordsKept
        /\ GreedyPacking

\* C7 witness: a long first word, then lines of several words
WrappedAfterLongFirstWord ==
    /\ pc = "pdf_savefig"
    /\ Len(lines) >= 3
    /\ lines[1] = <<>>
    /\ \E i \in DOMAIN lines : Len(lines[i]) >= 2

\* the stage a logged step belongs to
StageOf(step) ==
    IF step \in {"LinkPDF", "LinkWord", "Emit"} THEN "Delivery" ELSE step

RECURSIVE Stages(_)
\* the stages of a sequence of steps, consecutive steps of one stage merged
Stages(steps) ==
    IF Len(steps) <= 1 THEN [i \in DOMAIN steps |-> StageOf(steps[i])]
    ELSE IF StageOf(steps[1]) = StageOf(steps[2]) THEN Stages(Tail(steps))
    ELSE <<StageOf(steps[1])>> \o Stages(Tail(steps))

ClaimedOrder ==
    <<"Loader", "Selector", "Renderer", "PackagerPDF", "PackagerWord", "Delivery">>

CodeOrder ==
    <<"Loader", "Selector", "Renderer", "PackagerPDF", "LinkPDF",
      "PackagerWord", "LinkWord", "Emit">>

\* the renderer the claim assigns to a chart type
PolicyRenderer(ct) ==
    CASE ct = "Time Series" -> "create_time_series_plot"
      [] ct = "Box Plot" -> "create_boxplot"
      [] ct = "Correlation Heatmap" -> "create_heatmap"
      [] ct = "Annual Sales" -> "create_annual_sales"

\* exactly the renderer of the chart type is invoked, once, and only after the button
OneMatchingRenderer ==
    /\ Len(rendered) <= 1
    /\ Contains(started, "Renderer") <=> Len(rendered) = 1
    /\ rendered # <<>> => rendered[1] = PolicyRenderer(chart_type)
    /\ Contains(completed, "Renderer") => fig.kind = chart_type
    /\ (Contains(started, "Renderer") \/ PackagerStarted
          \/ Contains(Stages(started), "Delivery")) => button

\* C8 as stated: the stages start in the order Loader, Selector, Renderer,
\* Packager (PDF, then Word), Delivery, each at most once and each after the
\* one before it has completed; one matching renderer, only after the button.
StagesInClaimedOrder ==
    /\ IsPrefix(Stages(started), ClaimedOrder)
    /\ IsPrefix(Stages(completed), ClaimedOrder)
    /\ Len(completed) <= Len(started)
    /\ Len(started) <= Len(completed) + 1
    /\ OneMatchingRenderer

\* C8 as amended: the steps run in the order Loader, Selector, Renderer, PDF
\* packager, PDF link encoding, Word packager, Word link encoding, link
\* emission, each at most once and each after the one before it has
\* completed; one matching renderer, only after the button.
StagesInCodeOrder ==
    /\ IsPrefix(started, CodeOrder)
    /\ IsPrefix(completed, CodeOrder)
    /\ Len(completed) <= Len(started)
    /\ Len(started) <= Len(completed) + 1
    /\ OneMatchingRenderer

\* C8 witness: a run went through every step
AllStagesCompleted ==
    /\ pc = "idle"
    /\ completed = CodeOrder
    /\ chart_type = "Box Plot"

\* two runs read the same inputs: the same widget values, and the same
\* answers of the environment to the library calls that both runs made
SameInputs(a, b) ==
    /\ [a EXCEPT !.env = <<>>] = [b EXCEPT !.env = <<>>]
    /\ IsPrefix(a.env, b.env) \/ IsPrefix(b.env, a.env)

\* C9: a run that ended with the same inputs as the remembered earlier run
\* has the same outcome.
OutcomeDependsOnInputsOnly ==
    (pc = "idle" /\ ref.set /\ SameInputs(ref.inputs, inputs))
        => ref.outcome = Outcome

\* C9 witness: the same inputs succeed again after a run that left a file behind
SameInputsAfterFailedRun ==
    /\ pc = "idle"
    /\ ref.set
    /\ ref.inputs = inputs
    /\ tmp_files # {}
    /\ Contains(screen, "docx_link")

\* C10: a link is shown only after both report functions have returned; a
\* run ends with both links or with neither; when create_word_report raises,
\* the PDF buffer exists and the chart is shown, yet no PDF link is.
LinksAllOrNothing ==
    /\ LinkShown =>
        /\ Contains(completed, "PackagerPDF") /\ pdf_buffer.format = "pdf"
        /\ Contains(completed, "PackagerWord") /\ docx_buffer.format = "docx"
    /\ pc = "idle" => (Contains(screen, "pdf_link") <=> Contains(screen, "docx_link"))
    /\ (pc = "idle" /\ error_text \in WordErrors) =>
        /\ pdf_buffer.format = "pdf"
        /\ Contains(screen, "chart")
        /\ ~LinkShown

\* C10 witness: create_word_report raised after the PDF buffer was built
WordReportFailedAfterPdf ==
    /\ pc = "idle"
    /\ error_text = "word add_picture"
    /\ pdf_buffer.format = "pdf"
    /\ pdf_link # NoLink

====
